---------------------------- MODULE Spec2Model ----------------------------
(***************************************************************************)
(* Model of the MCP23S17 SPI matrix controller                             *)
(* (src/mcp23s17_controller.py): the register layer (_build_command,       *)
(* _write_register, _read_register), the port layer with its two cached    *)
(* port states, and the matrix layer (pulse_row_column, matrix_sequence,   *)
(* MatrixController).  The program is single threaded: one public          *)
(* operation runs at a time.  An operation that makes one bus transfer at  *)
(* most is one action; an operation that makes several transfers or sleeps *)
(* is a chain of steps, one per statement, so that the states between two  *)
(* transfers (a pin held high, a failed write in the middle) are states of *)
(* the model.  The SPI transport and the chip are the environment: a       *)
(* transfer on an open bus is accepted or rejected (an exception of        *)
(* spidev), a transfer on a closed bus is rejected, and the chip is a      *)
(* register file that stores the data byte of every accepted write frame.  *)
(***************************************************************************)
EXTENDS Integers, Sequences, FiniteSets, TLC

VARIABLES
    port_a_state,   \* MCP23S17.port_a_state: cached state of port A
    port_b_state,   \* MCP23S17.port_b_state: cached state of port B
    chip,           \* the chip's registers, by address
    spi_open,       \* whether the spidev handle is open
    chip_select,    \* MCP23S17.chip_select
    num_rows,       \* MatrixController.num_rows
    num_cols,       \* MatrixController.num_cols
    row_port,       \* MatrixController.row_port
    col_port,       \* MatrixController.col_port
    op,             \* the public operation running, or the last one that ran
    pc,             \* the statement the running operation is at
    args,           \* arguments and locals of the operation
    log,            \* bus transfers, sleeps and closes of the operation, in order
    result,         \* how the operation ended for its caller
    err,            \* the exception raised inside the operation, if any
    ret,            \* the value returned: <<>> for None, <<v>> for a value
    pre_a,          \* port_a_state when the operation was called
    pre_b,          \* port_b_state when the operation was called
    calls,          \* number of public operations called so far
    rejected,       \* whether the bus has rejected a transfer or a close so far
    seen            \* what a caller that toggles one pin repeatedly saw before its first toggle

vars == <<port_a_state, port_b_state, chip, spi_open, chip_select, num_rows,
          num_cols, row_port, col_port, op, pc, args, log, result, err, ret,
          pre_a, pre_b, calls, rejected, seen>>

(***************************************************************************)
(* Bounds of the model.                                                    *)
(***************************************************************************)
\* public operations called in one behaviour
MaxCalls == 3
\* length of the list given to press_sequence / matrix_sequence
MaxSeqLen == 2

(***************************************************************************)
(* Register addresses (class MCP23S17Register) used by the controller.     *)
(***************************************************************************)
IODIRA == 0
IODIRB == 1
GPPUA == 12
GPPUB == 13
GPIOA == 18
GPIOB == 19

Registers == {IODIRA, IODIRB, GPPUA, GPPUB, GPIOA, GPIOB}

\* default pulse duration and interval of the matrix operations, in units of 0.1 s
DefaultDuration == 1
DefaultInterval == 2

(***************************************************************************)
(* Integer bit operations, as Python computes them on non-negative ints.   *)
(***************************************************************************)
\* mutant of Shl: the pins are counted from 1
ShlFromOne(v, n) == v * (2 ^ (n + 1))

Shl(v, n) == v * (2 ^ n)

RECURSIVE BitOr(_, _)
BitOr(a, b) ==
    IF a = 0 THEN b
    ELSE IF b = 0 THEN a
    ELSE (IF a % 2 = 1 \/ b % 2 = 1 THEN 1 ELSE 0) + 2 * BitOr(a \div 2, b \div 2)

RECURSIVE BitAnd(_, _)
BitAnd(a, b) ==
    IF a = 0 \/ b = 0 THEN 0
    ELSE (IF a % 2 = 1 /\ b % 2 = 1 THEN 1 ELSE 0) + 2 * BitAnd(a \div 2, b \div 2)

\* v & ~m for non-negative v and m: the bits of v that are not in m
BitAndNot(v, m) == v - BitAnd(v, m)

\* bool(v & (1 << n))
BitIsSet(v, n) == BitAnd(v, Shl(1, n)) # 0


\* str.upper() on the port names given to the operations
Upper(port) ==
    CASE port = "a" -> "A"
      [] port = "b" -> "B"
      [] port = "c" -> "C"
      [] OTHER -> port

(***************************************************************************)
(* Inputs given to the operations.                                         *)
(***************************************************************************)
PortArgs == {"A", "b", "C"}
PinArgs == {1, 3, 8}
ValueArgs == {-1, 0, 5, 256}
RowArgs == {-1, 1, 3, 8}
ColArgs == {-1, 3, 4, 8}
SeqPosArgs == {<<1, 3>>, <<3, 3>>, <<1, 8>>}
SeqArgs == UNION {[1..n -> SeqPosArgs] : n \in 0..MaxSeqLen}
Configs ==
    {[num_rows |-> 3, num_cols |-> 4, row_port |-> "A", col_port |-> "B"],
     [num_rows |-> 4, num_cols |-> 4, row_port |-> "B", col_port |-> "A"]}

NoArgs ==
    [port |-> "-", pin |-> -1, value |-> -1, row |-> -1, col |-> -1,
     rport |-> "-", cport |-> "-", seq |-> <<>>, i |-> 0, current |-> -1,
     is_output |-> FALSE, duration |-> 0, interval |-> 0]

(***************************************************************************)
(* The transport and the chip.                                             *)
(***************************************************************************)
\* outcomes of one transfer or close: accepted (TRUE) or rejected (FALSE)
Outcomes == IF spi_open THEN {TRUE, FALSE} ELSE {FALSE}

\* the chip stores the data byte of an accepted write frame
ChipStore(c, frame) ==
    IF frame[1] % 2 = 0 /\ frame[2] \in DOMAIN c
    THEN [c EXCEPT ![frame[2]] = frame[3]]
    ELSE c

\* the chip's reply to an accepted read frame: the register in the third byte
ChipReply(c, frame) ==
    <<0, 0, IF frame[1] % 2 = 1 /\ frame[2] \in DOMAIN c THEN c[frame[2]] ELSE 0>>

(***************************************************************************)
(* Register layer.                                                         *)
(***************************************************************************)
\* mutant of BuildCommand: chip_select is or-ed in without the shift
BuildCommandNoShift(opcode, address) ==
    <<BitOr(BitOr(64, chip_select), opcode), address>>

\* _build_command: <<command byte, address byte>>
BuildCommand(opcode, address) ==
    <<BitOr(BitOr(64, Shl(chip_select, 1)), opcode), address>>

WriteFrame(register, data) ==
    LET c == BuildCommand(0, register) IN <<c[1], c[2], data>>

ReadFrame(register) ==
    LET c == BuildCommand(1, register) IN <<c[1], c[2], 0>>

\* mutant of write_register: a rejected frame is sent once more before the error is raised
write_register_retry(base, register, data, ok) ==
    /\ log' = IF ok
              THEN Append(base, [kind |-> "writebytes", frame |-> WriteFrame(register, data),
                                 resp |-> <<>>, ok |-> TRUE])
              ELSE base \o <<[kind |-> "writebytes", frame |-> WriteFrame(register, data),
                              resp |-> <<>>, ok |-> FALSE],
                             [kind |-> "writebytes", frame |-> WriteFrame(register, data),
                              resp |-> <<>>, ok |-> FALSE]>>
    /\ chip' = IF ok THEN ChipStore(chip, WriteFrame(register, data)) ELSE chip
    /\ rejected' = (rejected \/ ~ok)

\* _write_register: one spi.writebytes of the frame; a rejection is re-raised
write_register(base, register, data, ok) ==
    /\ log' = Append(base, [kind |-> "writebytes", frame |-> WriteFrame(register, data),
                            resp |-> <<>>, ok |-> ok])
    /\ chip' = IF ok THEN ChipStore(chip, WriteFrame(register, data)) ELSE chip
    /\ rejected' = (rejected \/ ~ok)

\* mutant of ReadData: a read of a GPIO register is served from the cached state
ReadDataCached(register) ==
    IF register = GPIOA THEN port_a_state
    ELSE IF register = GPIOB THEN port_b_state
    ELSE chip[register]

\* _read_register: one spi.xfer2 of the frame; returns result[2]
ReadData(register) == ChipReply(chip, ReadFrame(register))[3]

read_register(base, register, ok) ==
    /\ log' = Append(base, [kind |-> "xfer2", frame |-> ReadFrame(register),
                            resp |-> IF ok THEN ChipReply(chip, ReadFrame(register)) ELSE <<>>,
                            ok |-> ok])
    /\ rejected' = (rejected \/ ~ok)
    /\ UNCHANGED chip

\* time.sleep(t)
SleepEvent(t) == [kind |-> "sleep", frame |-> <<t>>, resp |-> <<>>, ok |-> TRUE]

\* spi.close()
CloseEvent(ok) == [kind |-> "close", frame |-> <<>>, resp |-> <<>>, ok |-> ok]

(***************************************************************************)
(* Port layer: argument checks and the two set_pin operations.             *)
(***************************************************************************)
ValidPort(port) == Upper(port) \in {"A", "B"}

\* mutant of ValidPin: pin 8 is accepted
ValidPinInclusive(pin) == 0 <= pin /\ pin <= 8

ValidPin(pin) == 0 <= pin /\ pin <= 7

\* mutant of ValidValue: the upper limit is exclusive
ValidValueExclusive(value) == 0 <= value /\ value < 255

ValidValue(value) == 0 <= value /\ value <= 255

\* mutant of GpioOf: every GPIO write goes to port A's register
GpioOfPortA(port) == GPIOA

GpioOf(port) == IF Upper(port) = "A" THEN GPIOA ELSE GPIOB
IodirOf(port) == IF Upper(port) = "A" THEN IODIRA ELSE IODIRB
StateOf(port) == IF Upper(port) = "A" THEN port_a_state ELSE port_b_state

\* the exception a set_pin_high / set_pin_low call ends with ("none": it returns)
SetPinExc(port, pin, ok) ==
    IF ~ValidPort(port) \/ ~ValidPin(pin) THEN "ValueError"
    ELSE IF ok THEN "none"
    ELSE "IOError"

\* mutant of HighState: the pin's bit is added, not or-ed
HighStateAdd(state, pin) == state + Shl(1, pin)

\* the cached state set_pin_high / set_pin_low computes
HighState(state, pin) == BitOr(state, Shl(1, pin))

\* mutant of LowState: the whole byte is cleared
LowStateClearAll(state, pin) == 0

LowState(state, pin) == BitAndNot(state, Shl(1, pin))

\* the cached port states after a set_pin call that passed the argument checks
StoreState(port, new) ==
    IF Upper(port) = "A"
    THEN port_a_state' = new /\ UNCHANGED port_b_state
    ELSE port_b_state' = new /\ UNCHANGED port_a_state

set_pin_high(base, port, pin, ok) ==
    IF ~ValidPort(port) \/ ~ValidPin(pin)
    THEN log' = base /\ UNCHANGED <<port_a_state, port_b_state, chip, rejected>>
    ELSE /\ StoreState(port, HighState(StateOf(port), pin))
         /\ write_register(base, GpioOf(port), HighState(StateOf(port), pin), ok)

set_pin_low(base, port, pin, ok) ==
    IF ~ValidPort(port) \/ ~ValidPin(pin)
    THEN log' = base /\ UNCHANGED <<port_a_state, port_b_state, chip, rejected>>
    ELSE /\ StoreState(port, LowState(StateOf(port), pin))
         /\ write_register(base, GpioOf(port), LowState(StateOf(port), pin), ok)


(***************************************************************************)
(* Frames of the operations.                                               *)
(***************************************************************************)
config == <<chip_select, num_rows, num_cols, row_port, col_port>>
shadow == <<port_a_state, port_b_state>>

\* the caller is between two operations
Idle == pc = "idle"

\* a public operation is called: its arguments are bound, its log starts empty
Begin(name, a) ==
    /\ op' = name
    /\ args' = a
    /\ pre_a' = port_a_state
    /\ pre_b' = port_b_state
    /\ calls' = calls + 1
    /\ UNCHANGED <<config, seen>>

\* the operation returns (res = "ok") or raises res to its caller
Finish(res) ==
    /\ pc' = "done"
    /\ result' = res
    /\ err' = IF res = "ok" THEN err ELSE res

\* mutant of Continue: the exception of a call is swallowed and the operation goes on
ContinueIgnoring(exc, next) == pc' = next /\ UNCHANGED <<result, err>>

\* exc = "none": go on at the next statement; otherwise exc leaves the operation
Continue(exc, next) ==
    IF exc = "none"
    THEN pc' = next /\ UNCHANGED <<result, err>>
    ELSE Finish(exc)

\* the statement after a call that returned or raised, for a one-action operation
Return(exc) ==
    /\ pc' = "done"
    /\ result' = IF exc = "none" THEN "ok" ELSE exc
    /\ err' = exc

Running == /\ result' = "running"
           /\ err' = "none"
           /\ ret' = <<>>
           /\ log' = <<>>
           /\ UNCHANGED <<shadow, chip, rejected, spi_open>>

Step == UNCHANGED <<config, op, pre_a, pre_b, calls, seen>>

\* the operation has returned or raised and its frame is gone: the caller (the
\* application's main block, the examples) goes on to its next call
NextCall ==
    /\ pc = "done"
    /\ calls < MaxCalls
    /\ pc' = "idle"
    /\ op' = "-"
    /\ args' = NoArgs
    /\ log' = <<>>
    /\ result' = "none"
    /\ err' = "none"
    /\ ret' = <<>>
    /\ pre_a' = port_a_state
    /\ pre_b' = port_b_state
    /\ UNCHANGED <<config, shadow, chip, rejected, spi_open, calls, seen>>

(***************************************************************************)
(* Construction: MCP23S17.__init__ from the call of _initialize_chip on.   *)
(***************************************************************************)
\* mutant of InitWrites: the pull-up registers are left as they are
InitWritesNoPullups == <<IODIRA, IODIRB, GPIOA, GPIOB>>

InitWrites == <<IODIRA, IODIRB, GPPUA, GPPUB, GPIOA, GPIOB>>

\* no caller has started a loop of toggles
NotSeen == [port |-> "-", pin |-> -1, a |-> 0, b |-> 0, gpioa |-> 0, gpiob |-> 0, at |-> -1]

\* values the chip's registers may hold when the program starts
PowerOnValues == {0, 255}

Init ==
    /\ port_a_state = 0
    /\ port_b_state = 0
    /\ \E d \in PowerOnValues, g \in PowerOnValues :
          chip = [r \in Registers |->
                     IF r \in {IODIRA, IODIRB} THEN d
                     ELSE IF r \in {GPIOA, GPIOB} THEN g ELSE 0]
    /\ spi_open = TRUE
    /\ chip_select = 0
    /\ \E c \in Configs :
          /\ num_rows = c.num_rows
          /\ num_cols = c.num_cols
          /\ row_port = c.row_port
          /\ col_port = c.col_port
    /\ op = "__init__"
    /\ pc = "init"
    /\ args = [NoArgs EXCEPT !.i = 1]
    /\ log = <<>>
    /\ result = "running"
    /\ err = "none"
    /\ ret = <<>>
    /\ pre_a = 0
    /\ pre_b = 0
    /\ calls = 0
    /\ rejected = FALSE
    /\ seen = NotSeen

\* _initialize_chip: the six register writes, then the cached states
initialize_chip ==
    /\ pc = "init"
    /\ \E ok \in Outcomes :
          /\ write_register(log, InitWrites[args.i], 0, ok)
          /\ IF ~ok
             THEN /\ pc' = "failed"
                  /\ result' = "IOError"
                  /\ err' = "IOError"
                  /\ UNCHANGED <<args, shadow>>
             ELSE IF args.i < Len(InitWrites)
             THEN /\ args' = [args EXCEPT !.i = args.i + 1]
                  /\ UNCHANGED <<pc, result, err, shadow>>
             ELSE /\ port_a_state' = 0
                  /\ port_b_state' = 0
                  /\ pc' = "done"
                  /\ result' = "ok"
                  /\ UNCHANGED <<args, err>>
    /\ Step
    /\ UNCHANGED <<spi_open, ret>>

(***************************************************************************)
(* Port layer: the operations that are one action.                         *)
(***************************************************************************)
SetPinHigh(port, pin) ==
    /\ Idle
    /\ Begin("set_pin_high", [NoArgs EXCEPT !.port = port, !.pin = pin])
    /\ \E ok \in Outcomes :
          /\ set_pin_high(<<>>, port, pin, ok)
          /\ Return(SetPinExc(port, pin, ok))
    /\ ret' = <<>>
    /\ UNCHANGED spi_open

SetPinLow(port, pin) ==
    /\ Idle
    /\ Begin("set_pin_low", [NoArgs EXCEPT !.port = port, !.pin = pin])
    /\ \E ok \in Outcomes :
          /\ set_pin_low(<<>>, port, pin, ok)
          /\ Return(SetPinExc(port, pin, ok))
    /\ ret' = <<>>
    /\ UNCHANGED spi_open

\* mutant of toggle_pin: the level before the call is returned
toggle_pin_returns_old(port, pin) ==
    /\ Idle
    /\ Begin("toggle_pin", [NoArgs EXCEPT !.port = port, !.pin = pin])
    /\ \E ok \in Outcomes :
          /\ IF ValidPort(port) /\ ValidPin(pin) /\ BitIsSet(StateOf(port), pin)
             THEN set_pin_low(<<>>, port, pin, ok)
             ELSE set_pin_high(<<>>, port, pin, ok)
          /\ Return(SetPinExc(port, pin, ok))
          /\ ret' = IF SetPinExc(port, pin, ok) = "none"
                    THEN <<BitIsSet(StateOf(port), pin)>>
                    ELSE <<>>
    /\ UNCHANGED spi_open

\* toggle_pin: reads the cached bit, calls set_pin_low or set_pin_high, returns not is_high
toggle_pin(port, pin) ==
    /\ Idle
    /\ Begin("toggle_pin", [NoArgs EXCEPT !.port = port, !.pin = pin])
    /\ \E ok \in Outcomes :
          /\ IF ValidPort(port) /\ ValidPin(pin) /\ BitIsSet(StateOf(port), pin)
             THEN set_pin_low(<<>>, port, pin, ok)
             ELSE set_pin_high(<<>>, port, pin, ok)
          /\ Return(SetPinExc(port, pin, ok))
          /\ ret' = IF SetPinExc(port, pin, ok) = "none"
                    THEN <<~BitIsSet(StateOf(port), pin)>>
                    ELSE <<>>
    /\ UNCHANGED spi_open

\* set_port: checks the arguments, stores the value, writes it
set_port(port, value) ==
    /\ Idle
    /\ Begin("set_port", [NoArgs EXCEPT !.port = port, !.value = value])
    /\ IF ~ValidPort(port) \/ ~ValidValue(value)
       THEN /\ Return("ValueError")
            /\ log' = <<>>
            /\ UNCHANGED <<shadow, chip, rejected>>
       ELSE \E ok \in Outcomes :
               /\ StoreState(port, value)
               /\ write_register(<<>>, GpioOf(port), value, ok)
               /\ Return(IF ok THEN "none" ELSE "IOError")
    /\ ret' = <<>>
    /\ UNCHANGED spi_open

\* mutant of get_port_state: the state is read from the port's GPIO register
get_port_state_from_chip(port) ==
    /\ Idle
    /\ Begin("get_port_state", [NoArgs EXCEPT !.port = port])
    /\ IF ~ValidPort(port)
       THEN /\ Return("ValueError")
            /\ ret' = <<>>
            /\ log' = <<>>
            /\ UNCHANGED <<chip, rejected>>
       ELSE \E ok \in Outcomes :
               /\ read_register(<<>>, GpioOf(port), ok)
               /\ Return(IF ok THEN "none" ELSE "IOError")
               /\ ret' = IF ok THEN <<ReadData(GpioOf(port))>> ELSE <<>>
    /\ UNCHANGED <<shadow, spi_open>>

\* get_port_state: returns the cached state
get_port_state(port) ==
    /\ Idle
    /\ Begin("get_port_state", [NoArgs EXCEPT !.port = port])
    /\ IF ~ValidPort(port)
       THEN Return("ValueError") /\ ret' = <<>>
       ELSE Return("none") /\ ret' = <<StateOf(port)>>
    /\ log' = <<>>
    /\ UNCHANGED <<shadow, chip, rejected, spi_open>>

\* read_port_input: one read of the port's GPIO register
read_port_input(port) ==
    /\ Idle
    /\ Begin("read_port_input", [NoArgs EXCEPT !.port = port])
    /\ IF ~ValidPort(port)
       THEN /\ Return("ValueError")
            /\ ret' = <<>>
            /\ log' = <<>>
            /\ UNCHANGED <<chip, rejected>>
       ELSE \E ok \in Outcomes :
               /\ read_register(<<>>, GpioOf(port), ok)
               /\ Return(IF ok THEN "none" ELSE "IOError")
               /\ ret' = IF ok THEN <<ReadData(GpioOf(port))>> ELSE <<>>
    /\ UNCHANGED <<shadow, spi_open>>


(***************************************************************************)
(* Port layer: pulse_pin and configure_pin_mode, statement by statement.   *)
(***************************************************************************)
CallPulsePin(port, pin) ==
    /\ Idle
    /\ Begin("pulse_pin", [NoArgs EXCEPT !.port = port, !.pin = pin,
                                         !.duration = DefaultDuration])
    /\ pc' = "pulse_high"
    /\ Running

pulse_high ==
    /\ pc = "pulse_high"
    /\ \E ok \in Outcomes :
          /\ set_pin_high(log, args.port, args.pin, ok)
          /\ Continue(SetPinExc(args.port, args.pin, ok), "pulse_sleep")
    /\ Step
    /\ UNCHANGED <<args, spi_open, ret>>

\* mutant of pulse_sleep: the pin is released without the hold
pulse_sleep_skipped ==
    /\ pc = "pulse_sleep"
    /\ pc' = "pulse_low"
    /\ Step
    /\ UNCHANGED <<args, log, shadow, chip, rejected, spi_open, result, err, ret>>

pulse_sleep ==
    /\ pc = "pulse_sleep"
    /\ log' = Append(log, SleepEvent(args.duration))
    /\ pc' = "pulse_low"
    /\ Step
    /\ UNCHANGED <<args, shadow, chip, rejected, spi_open, result, err, ret>>

pulse_low ==
    /\ pc = "pulse_low"
    /\ \E ok \in Outcomes :
          /\ set_pin_low(log, args.port, args.pin, ok)
          /\ Finish(IF SetPinExc(args.port, args.pin, ok) = "none" THEN "ok"
                    ELSE SetPinExc(args.port, args.pin, ok))
    /\ Step
    /\ UNCHANGED <<args, spi_open, ret>>

\* configure_pin_mode: the argument checks, then the read and the write
CallConfigurePinMode(port, pin, is_output) ==
    /\ Idle
    /\ Begin("configure_pin_mode",
             [NoArgs EXCEPT !.port = port, !.pin = pin, !.is_output = is_output])
    /\ Running
    /\ pc' = IF ValidPort(port) /\ ValidPin(pin) THEN "cfg_read" ELSE "cfg_invalid"

cfg_invalid ==
    /\ pc = "cfg_invalid"
    /\ Finish("ValueError")
    /\ Step
    /\ UNCHANGED <<args, log, shadow, chip, rejected, spi_open, ret>>

cfg_read ==
    /\ pc = "cfg_read"
    /\ \E ok \in Outcomes :
          /\ read_register(log, IodirOf(args.port), ok)
          /\ Continue(IF ok THEN "none" ELSE "IOError", "cfg_write")
          /\ args' = IF ok THEN [args EXCEPT !.current = ReadData(IodirOf(args.port))]
                     ELSE args
    /\ Step
    /\ UNCHANGED <<shadow, spi_open, ret>>

\* mutant of ModeBits: the other pins' direction bits are dropped
ModeBitsOverwrite(current, pin, is_output) ==
    IF is_output THEN 0 ELSE Shl(1, pin)

\* current &= ~(1 << pin) for an output, current |= (1 << pin) for an input
ModeBits(current, pin, is_output) ==
    IF is_output THEN BitAndNot(current, Shl(1, pin)) ELSE BitOr(current, Shl(1, pin))

cfg_write ==
    /\ pc = "cfg_write"
    /\ \E ok \in Outcomes :
          /\ write_register(log, IodirOf(args.port),
                            ModeBits(args.current, args.pin, args.is_output), ok)
          /\ Finish(IF ok THEN "ok" ELSE "IOError")
    /\ Step
    /\ UNCHANGED <<args, shadow, spi_open, ret>>

(***************************************************************************)
(* Matrix layer: pulse_row_column, matrix_sequence, MatrixController.      *)
(***************************************************************************)
InSequence == op = "press_sequence"

\* pulse_row_column called on the MCP23S17 with its default ports
CallPulseRowColumn(row, col) ==
    /\ Idle
    /\ Begin("pulse_row_column",
             [NoArgs EXCEPT !.row = row, !.col = col, !.rport = "A", !.cport = "B",
                            !.duration = DefaultDuration])
    /\ pc' = "prc_row_high"
    /\ Running

\* mutant of ValidPosition: the upper limits are inclusive
ValidPositionInclusive(row, col) ==
    (0 <= row /\ row <= num_rows) /\ (0 <= col /\ col <= num_cols)

\* MatrixController.press_button: the position check, then pulse_row_column
ValidPosition(row, col) ==
    (0 <= row /\ row < num_rows) /\ (0 <= col /\ col < num_cols)

press_button(row, col) ==
    /\ Idle
    /\ Begin("press_button",
             [NoArgs EXCEPT !.row = row, !.col = col, !.rport = row_port,
                            !.cport = col_port, !.duration = DefaultDuration])
    /\ IF ValidPosition(row, col)
       THEN pc' = "prc_row_high" /\ Running
       ELSE /\ Return("ValueError")
            /\ ret' = <<>>
            /\ log' = <<>>
            /\ UNCHANGED <<shadow, chip, rejected, spi_open>>

prc_row_high ==
    /\ pc = "prc_row_high"
    /\ \E ok \in Outcomes :
          /\ set_pin_high(log, args.rport, args.row, ok)
          /\ Continue(SetPinExc(args.rport, args.row, ok), "prc_col_high")
    /\ Step
    /\ UNCHANGED <<args, spi_open, ret>>

\* mutant of prc_col_high: the row is released where the column should be asserted
prc_col_high_releases_row ==
    /\ pc = "prc_col_high"
    /\ \E ok \in Outcomes :
          /\ set_pin_low(log, args.rport, args.row, ok)
          /\ Continue(SetPinExc(args.rport, args.row, ok), "prc_sleep")
    /\ Step
    /\ UNCHANGED <<args, spi_open, ret>>

prc_col_high ==
    /\ pc = "prc_col_high"
    /\ \E ok \in Outcomes :
          /\ set_pin_high(log, args.cport, args.col, ok)
          /\ Continue(SetPinExc(args.cport, args.col, ok), "prc_sleep")
    /\ Step
    /\ UNCHANGED <<args, spi_open, ret>>

\* mutant of prc_sleep: the sleep of the press never returns
prc_sleep_forever ==
    /\ pc = "prc_sleep"
    /\ UNCHANGED vars

prc_sleep ==
    /\ pc = "prc_sleep"
    /\ log' = Append(log, SleepEvent(args.duration))
    /\ pc' = "prc_row_low"
    /\ Step
    /\ UNCHANGED <<args, shadow, chip, rejected, spi_open, result, err, ret>>

\* mutant of prc_row_low: the row pin is left high
prc_row_low_skipped ==
    /\ pc = "prc_row_low"
    /\ pc' = "prc_col_low"
    /\ Step
    /\ UNCHANGED <<args, log, shadow, chip, rejected, spi_open, result, err, ret>>

prc_row_low ==
    /\ pc = "prc_row_low"
    /\ \E ok \in Outcomes :
          /\ set_pin_low(log, args.rport, args.row, ok)
          /\ Continue(SetPinExc(args.rport, args.row, ok), "prc_col_low")
    /\ Step
    /\ UNCHANGED <<args, spi_open, ret>>

\* the last statement of pulse_row_column; it returns into matrix_sequence's loop
\* or ends the operation
prc_col_low ==
    /\ pc = "prc_col_low"
    /\ \E ok \in Outcomes :
          /\ set_pin_low(log, args.cport, args.col, ok)
          /\ IF SetPinExc(args.cport, args.col, ok) # "none"
             THEN Finish(SetPinExc(args.cport, args.col, ok))
             ELSE IF InSequence
             THEN pc' = "seq_interval" /\ UNCHANGED <<result, err>>
             ELSE Finish("ok")
    /\ Step
    /\ UNCHANGED <<args, spi_open, ret>>

\* MatrixController.press_sequence: matrix_sequence with the configured ports
press_sequence(seq) ==
    /\ Idle
    /\ Begin("press_sequence",
             [NoArgs EXCEPT !.seq = seq, !.i = 1, !.rport = row_port, !.cport = col_port,
                            !.duration = DefaultDuration, !.interval = DefaultInterval])
    /\ pc' = "seq_next"
    /\ Running

\* mutant of seq_next: the interval is slept once more when the list is exhausted
seq_next_sleep_at_end ==
    /\ pc = "seq_next"
    /\ IF args.i <= Len(args.seq)
       THEN /\ args' = [args EXCEPT !.row = args.seq[args.i][1],
                                    !.col = args.seq[args.i][2]]
            /\ pc' = "prc_row_high"
            /\ UNCHANGED <<result, err, log>>
       ELSE /\ Finish("ok")
            /\ log' = Append(log, SleepEvent(args.interval))
            /\ UNCHANGED args
    /\ Step
    /\ UNCHANGED <<shadow, chip, rejected, spi_open, ret>>

\* the head of matrix_sequence's for loop: the next (row, col), or the end of the list
seq_next ==
    /\ pc = "seq_next"
    /\ IF args.i <= Len(args.seq)
       THEN /\ args' = [args EXCEPT !.row = args.seq[args.i][1],
                                    !.col = args.seq[args.i][2]]
            /\ pc' = "prc_row_high"
            /\ UNCHANGED <<result, err>>
       ELSE /\ Finish("ok")
            /\ UNCHANGED args
    /\ Step
    /\ UNCHANGED <<log, shadow, chip, rejected, spi_open, ret>>

\* mutant of seq_interval: the interval is slept after every press, the last included
seq_interval_after_each ==
    /\ pc = "seq_interval"
    /\ log' = Append(log, SleepEvent(args.interval))
    /\ args' = [args EXCEPT !.i = args.i + 1]
    /\ pc' = "seq_next"
    /\ Step
    /\ UNCHANGED <<shadow, chip, rejected, spi_open, result, err, ret>>

\* if i < len(sequence) - 1: time.sleep(interval)
seq_interval ==
    /\ pc = "seq_interval"
    /\ log' = IF args.i < Len(args.seq) THEN Append(log, SleepEvent(args.interval))
              ELSE log
    /\ args' = [args EXCEPT !.i = args.i + 1]
    /\ pc' = "seq_next"
    /\ Step
    /\ UNCHANGED <<shadow, chip, rejected, spi_open, result, err, ret>>

(***************************************************************************)
(* cleanup: both GPIO registers to 0x00, then spi.close(); an exception of *)
(* any of the three is caught and logged.                                  *)
(***************************************************************************)
\* mutant of CleanupData: cleanup writes the cached state of port A
CleanupDataCached == port_a_state

\* the data byte cleanup writes to both GPIO registers
CleanupData == 0

CallCleanup ==
    /\ Idle
    /\ Begin("cleanup", NoArgs)
    /\ pc' = "cl_write_a"
    /\ Running

\* except Exception as e: logger.error(...): cleanup returns None
Caught(exc) ==
    /\ pc' = "done"
    /\ result' = "ok"
    /\ err' = exc

cl_write_a ==
    /\ pc = "cl_write_a"
    /\ \E ok \in Outcomes :
          /\ write_register(log, GPIOA, CleanupData, ok)
          /\ IF ok THEN pc' = "cl_write_b" /\ UNCHANGED <<result, err>>
             ELSE Caught("IOError")
    /\ Step
    /\ UNCHANGED <<args, shadow, spi_open, ret>>

\* mutant of cl_write_b: the second write of cleanup goes to GPIOA again
cl_write_b_to_a ==
    /\ pc = "cl_write_b"
    /\ \E ok \in Outcomes :
          /\ write_register(log, GPIOA, CleanupData, ok)
          /\ IF ok THEN pc' = "cl_close" /\ UNCHANGED <<result, err>>
             ELSE Caught("IOError")
    /\ Step
    /\ UNCHANGED <<args, shadow, spi_open, ret>>

cl_write_b ==
    /\ pc = "cl_write_b"
    /\ \E ok \in Outcomes :
          /\ write_register(log, GPIOB, CleanupData, ok)
          /\ IF ok THEN pc' = "cl_close" /\ UNCHANGED <<result, err>>
             ELSE Caught("IOError")
    /\ Step
    /\ UNCHANGED <<args, shadow, spi_open, ret>>

cl_close ==
    /\ pc = "cl_close"
    /\ \E ok \in Outcomes :
          /\ log' = Append(log, CloseEvent(ok))
          /\ spi_open' = IF ok THEN FALSE ELSE spi_open
          /\ rejected' = (rejected \/ ~ok)
          /\ IF ok THEN Finish("ok") ELSE Caught("IOError")
    /\ Step
    /\ UNCHANGED <<args, shadow, chip, ret>>

(***************************************************************************)
(* The specification.                                                      *)
(***************************************************************************)
Next ==
    \/ initialize_chip
    \/ NextCall
    \/ \E port \in PortArgs, pin \in PinArgs : SetPinHigh(port, pin)
    \/ \E port \in PortArgs, pin \in PinArgs : SetPinLow(port, pin)
    \/ \E port \in PortArgs, pin \in PinArgs : toggle_pin(port, pin)
    \/ \E port \in PortArgs, value \in ValueArgs : set_port(port, value)
    \/ \E port \in PortArgs : get_port_state(port)
    \/ \E port \in PortArgs : read_port_input(port)
    \/ \E port \in PortArgs, pin \in PinArgs : CallPulsePin(port, pin)
    \/ pulse_high
    \/ pulse_sleep
    \/ pulse_low
    \/ \E port \in PortArgs, pin \in PinArgs, is_output \in BOOLEAN :
          CallConfigurePinMode(port, pin, is_output)
    \/ cfg_invalid
    \/ cfg_read
    \/ cfg_write
    \/ \E row \in RowArgs, col \in ColArgs : CallPulseRowColumn(row, col)
    \/ \E row \in RowArgs, col \in ColArgs : press_button(row, col)
    \/ prc_row_high
    \/ prc_col_high
    \/ prc_sleep
    \/ prc_row_low
    \/ prc_col_low
    \/ \E seq \in SeqArgs : press_sequence(seq)
    \/ seq_next
    \/ seq_interval
    \/ CallCleanup
    \/ cl_write_a
    \/ cl_write_b
    \/ cl_close

Spec == Init /\ [][Next]_vars


(***************************************************************************)
(* Shutdown twice in a row: any first operation, then cleanup, cleanup.    *)
(***************************************************************************)
NextShutdownTwice ==
    /\ Next
    /\ (pc = "idle" /\ calls >= MaxCalls - 2) => op' = "cleanup"

SpecShutdownTwice == Init /\ [][NextShutdownTwice]_vars

(***************************************************************************)
(* A caller that toggles one pin again and again (examples.py, "for _ in   *)
(* range(3): mcp.toggle_pin('B', 0)"): entering the loop it is between two *)
(* operations; seen keeps the pin it toggles, the cached states and the    *)
(* GPIO registers at that moment.  From then on every call is toggle_pin   *)
(* on that pin; a toggle_pin that raises ends the loop.                    *)
(***************************************************************************)
ToggleLoop(port, pin) ==
    /\ Idle
    /\ seen = NotSeen
    /\ calls <= MaxCalls - 2
    /\ seen' = [port |-> port, pin |-> pin, a |-> port_a_state, b |-> port_b_state,
                gpioa |-> chip[GPIOA], gpiob |-> chip[GPIOB], at |-> calls]
    /\ UNCHANGED <<config, shadow, chip, spi_open, op, pc, args, log, result, err, ret,
                   pre_a, pre_b, calls, rejected>>

NextToggleTwice ==
    \/ /\ Next
       /\ (Idle /\ seen # NotSeen) =>
              (op' = "toggle_pin" /\ args'.port = seen.port /\ args'.pin = seen.pin)
       /\ (pc = "done" /\ seen # NotSeen /\ result # "ok") => pc' # "idle"
    \/ \E port \in PortArgs, pin \in PinArgs : ToggleLoop(port, pin)

SpecToggleTwice == Init /\ [][NextToggleTwice]_vars

(***************************************************************************)
(* A caller with its calls in try / finally (examples.py, examples 2 to    *)
(* 4): when a pulse, a press or a sequence raises, control passes to the   *)
(* finally clause, whose one call is cleanup.  seen keeps the cached       *)
(* states and the GPIO registers the failed operation has left.            *)
(***************************************************************************)
PulseOperations == {"pulse_pin", "pulse_row_column", "press_button", "press_sequence"}

Finally ==
    /\ pc = "done"
    /\ op \in PulseOperations
    /\ result \in {"IOError", "ValueError"}
    /\ seen = NotSeen
    /\ calls < MaxCalls
    /\ seen' = [port |-> "-", pin |-> -1, a |-> port_a_state, b |-> port_b_state,
                gpioa |-> chip[GPIOA], gpiob |-> chip[GPIOB], at |-> calls]
    /\ pc' = "idle"
    /\ op' = "-"
    /\ args' = NoArgs
    /\ log' = <<>>
    /\ result' = "none"
    /\ err' = "none"
    /\ ret' = <<>>
    /\ pre_a' = port_a_state
    /\ pre_b' = port_b_state
    /\ UNCHANGED <<config, shadow, chip, rejected, spi_open, calls>>

NextFinally ==
    \/ /\ Next
       /\ (Idle /\ seen # NotSeen) => op' = "cleanup"
    \/ Finally

SpecFinally == Init /\ [][NextFinally]_vars

(***************************************************************************)
(* Callers of the operations that write the cached states, with pins and   *)
(* values at and beyond the limits of a byte.                              *)
(***************************************************************************)
EdgePinArgs == {-1, 0, 7, 8}
EdgeValueArgs == {-1, 0, 127, 255, 256}

NextByteRange ==
    \/ initialize_chip
    \/ NextCall
    \/ \E port \in PortArgs, pin \in EdgePinArgs : SetPinHigh(port, pin)
    \/ \E port \in PortArgs, pin \in EdgePinArgs : SetPinLow(port, pin)
    \/ \E port \in PortArgs, pin \in EdgePinArgs : toggle_pin(port, pin)
    \/ \E port \in PortArgs, value \in EdgeValueArgs : set_port(port, value)
    \/ \E port \in PortArgs, pin \in EdgePinArgs : CallPulsePin(port, pin)
    \/ pulse_high
    \/ pulse_sleep
    \/ pulse_low
    \/ \E row \in RowArgs, col \in ColArgs : press_button(row, col)
    \/ prc_row_high
    \/ prc_col_high
    \/ prc_sleep
    \/ prc_row_low
    \/ prc_col_low
    \/ \E seq \in SeqArgs : press_sequence(seq)
    \/ seq_next
    \/ seq_interval

SpecByteRange == Init /\ [][NextByteRange]_vars

(***************************************************************************)
(* Pulses, presses and sequences with progress: an operation that has been *)
(* called executes its next statement (a write returns or raises, a sleep  *)
(* returns); the caller is not obliged to make a further call.             *)
(***************************************************************************)
PulseSteps ==
    \/ pulse_high
    \/ pulse_sleep
    \/ pulse_low
    \/ prc_row_high
    \/ prc_col_high
    \/ prc_sleep
    \/ prc_row_low
    \/ prc_col_low
    \/ seq_next
    \/ seq_interval

NextPulse ==
    \/ initialize_chip
    \/ NextCall
    \/ \E port \in PortArgs, pin \in PinArgs : CallPulsePin(port, pin)
    \/ \E row \in RowArgs, col \in ColArgs : press_button(row, col)
    \/ \E seq \in SeqArgs : press_sequence(seq)
    \/ PulseSteps

SpecPulseLive == Init /\ [][NextPulse]_vars /\ WF_vars(PulseSteps)

(***************************************************************************)
(* A caller that only sets and reads whole ports (examples.py, example 5), *)
(* with values at and around the limits of a byte.                         *)
(***************************************************************************)
ByteArgs == {-1, 0, 1, 85, 170, 255, 256}

NextSetPort ==
    \/ initialize_chip
    \/ NextCall
    \/ \E port \in PortArgs, value \in ByteArgs : set_port(port, value)
    \/ \E port \in PortArgs : get_port_state(port)

SpecSetPort == Init /\ [][NextSetPort]_vars

(***************************************************************************)
(* An MCP23S17 constructed with chip_select 0 or 1 (the argument of        *)
(* __init__, "Chip select pin (0 or 1)") and used through the operations   *)
(* that write one register, read one, or read and write one.               *)
(***************************************************************************)
ChipSelectArgs == {0, 1}

InitChipSelect ==
    /\ port_a_state = 0
    /\ port_b_state = 0
    /\ \E d \in PowerOnValues, g \in PowerOnValues :
          chip = [r \in Registers |->
                     IF r \in {IODIRA, IODIRB} THEN d
                     ELSE IF r \in {GPIOA, GPIOB} THEN g ELSE 0]
    /\ spi_open = TRUE
    /\ chip_select \in ChipSelectArgs
    /\ num_rows = 0
    /\ num_cols = 0
    /\ row_port = "-"
    /\ col_port = "-"
    /\ op = "__init__"
    /\ pc = "init"
    /\ args = [NoArgs EXCEPT !.i = 1]
    /\ log = <<>>
    /\ result = "running"
    /\ err = "none"
    /\ ret = <<>>
    /\ pre_a = 0
    /\ pre_b = 0
    /\ calls = 0
    /\ rejected = FALSE
    /\ seen = NotSeen

NextChipSelect ==
    \/ initialize_chip
    \/ NextCall
    \/ \E port \in PortArgs, value \in ValueArgs : set_port(port, value)
    \/ \E port \in PortArgs : read_port_input(port)
    \/ \E port \in PortArgs, pin \in PinArgs, is_output \in BOOLEAN :
          CallConfigurePinMode(port, pin, is_output)
    \/ cfg_invalid
    \/ cfg_read
    \/ cfg_write

SpecChipSelect == InitChipSelect /\ [][NextChipSelect]_vars

(***************************************************************************)
(* Vocabulary of the properties.  The argument ranges are written out here *)
(* and not taken from the operations' own checks.                          *)
(***************************************************************************)
Done == pc = "done"

\* construction has completed
Constructed == op # "__init__" \/ pc = "done"

PortNames == {"A", "B", "a", "b"}
PinRange == 0..7

InMatrix(row, col) ==
    row \in 0..(num_rows - 1) /\ col \in 0..(num_cols - 1)

CachedOf(port) == IF port \in {"A", "a"} THEN port_a_state ELSE port_b_state
CachedBefore(port) == IF port \in {"A", "a"} THEN pre_a ELSE pre_b
GpioRegOf(port) == IF port \in {"A", "a"} THEN GPIOA ELSE GPIOB

Rejections(l) == {k \in DOMAIN l : ~l[k].ok}
WriteIndexes(l) == {k \in DOMAIN l : l[k].kind = "writebytes"}
TransferIndexes(l) == {k \in DOMAIN l : l[k].kind \in {"writebytes", "xfer2"}}

\* event e is a write frame to the register, bit pin of its data byte is / is not set
WritesBit(e, register, pin, level) ==
    /\ e.kind = "writebytes"
    /\ e.frame[2] = register
    /\ BitIsSet(e.frame[3], pin) = level

ShadowUnchanged == port_a_state = pre_a /\ port_b_state = pre_b

(***************************************************************************)
(* C1.  After any sequence of operations in which every bus write          *)
(* succeeds, the cached state of each port equals the value last written   *)
(* to that port's GPIO register (after construction both registers have    *)
(* been written, and the chip holds the last accepted data byte).          *)
(***************************************************************************)
C1_ShadowEqualsRegister ==
    (Constructed /\ ~rejected) =>
        (port_a_state = chip[GPIOA] /\ port_b_state = chip[GPIOB])

(***************************************************************************)
(* C2.  When the GPIO write of set_pin_high / set_pin_low fails with a     *)
(* transport error, the cached port states after the call equal those      *)
(* before the call.                                                        *)
(***************************************************************************)
C2_FailedWriteKeepsShadow ==
    (Done /\ op \in {"set_pin_high", "set_pin_low"} /\ result = "IOError") =>
        ShadowUnchanged

(***************************************************************************)
(* C3.  An operation that ends with the invalid-argument error has issued  *)
(* no bus transfer and has changed no cached state.                        *)
(***************************************************************************)
C3_InvalidArgumentNotPartial ==
    (Done /\ result = "ValueError") => (log = <<>> /\ ShadowUnchanged)

(***************************************************************************)
(* C4.  press_sequence checks every position against the matrix            *)
(* dimensions: with the first position outside the matrix at index k (and  *)
(* no transfer rejected), the call ends with the invalid-argument error    *)
(* after the 4 * (k - 1) writes of the positions before it.  Stated for    *)
(* lists whose rows and columns are all pin numbers of a port.             *)
(***************************************************************************)
OutsideMatrix(seq) == {k \in DOMAIN seq : ~InMatrix(seq[k][1], seq[k][2])}
FirstOutside(seq) == CHOOSE k \in OutsideMatrix(seq) : \A j \in OutsideMatrix(seq) : k <= j

C4_SequenceChecksPositions ==
    (/\ Done
     /\ op = "press_sequence"
     /\ \A k \in DOMAIN args.seq : args.seq[k][1] \in PinRange /\ args.seq[k][2] \in PinRange
     /\ OutsideMatrix(args.seq) # {}
     /\ Rejections(log) = {})
    => (/\ result = "ValueError"
        /\ Cardinality(WriteIndexes(log)) = 4 * (FirstOutside(args.seq) - 1))

(***************************************************************************)
(* C5.  press_button at a position inside the matrix issues exactly four   *)
(* bus writes, all to GPIO registers: the row pin high on the row port,    *)
(* the column pin high on the column port, then the one sleep of the pulse *)
(* duration, then the row pin low and the column pin low.  A rejected      *)
(* write can only be the last event; with none rejected the call returns   *)
(* after all five events.                                                  *)
(***************************************************************************)
PressEvent(l, k) ==
    CASE k = 1 -> WritesBit(l[k], GpioRegOf(row_port), args.row, TRUE)
      [] k = 2 -> WritesBit(l[k], GpioRegOf(col_port), args.col, TRUE)
      [] k = 3 -> l[k].kind = "sleep" /\ l[k].frame = <<args.duration>>
      [] k = 4 -> WritesBit(l[k], GpioRegOf(row_port), args.row, FALSE)
      [] k = 5 -> WritesBit(l[k], GpioRegOf(col_port), args.col, FALSE)
      [] OTHER -> FALSE

C5_PressWritesInOrder ==
    (op = "press_button" /\ InMatrix(args.row, args.col)) =>
        /\ \A k \in DOMAIN log : PressEvent(log, k) /\ (~log[k].ok => k = Len(log))
        /\ (Done /\ Rejections(log) = {}) => (Len(log) = 5 /\ result = "ok")

C5_Witness ==
    /\ Done
    /\ op = "press_button"
    /\ result = "ok"
    /\ Len(log) = 5
    /\ args.row = 1
    /\ args.col = 3

(***************************************************************************)
(* C6.  press_button at a position outside the matrix (row >= num_rows,    *)
(* col >= num_cols, or a negative row or column) raises the                *)
(* invalid-argument error, issues no bus transfer and leaves both cached   *)
(* port states unchanged.                                                  *)
(***************************************************************************)
C6_InvalidPressRejected ==
    (op = "press_button" /\ ~InMatrix(args.row, args.col)) =>
        (Done /\ result = "ValueError" /\ log = <<>> /\ ShadowUnchanged)

C6_Witness ==
    /\ Done
    /\ op = "press_button"
    /\ args.row = num_rows
    /\ args.col = 3
    /\ result = "ValueError"
    /\ port_a_state # 0

(***************************************************************************)
(* C7.  After cleanup has been called twice in a row and the bus has been  *)
(* released, both GPIO registers and both cached port states are 0x00 and  *)
(* the second call has raised nothing.  (Under SpecShutdownTwice the last  *)
(* two operations of a behaviour are cleanup.)                             *)
(***************************************************************************)
C7_ShutdownTwiceAllZero ==
    (Done /\ calls = MaxCalls /\ ~spi_open) =>
        /\ result = "ok"
        /\ chip[GPIOA] = 0 /\ chip[GPIOB] = 0
        /\ port_a_state = 0 /\ port_b_state = 0

(***************************************************************************)
(* C8.  cleanup reads no register: it writes 0x00 to GPIOA, then 0x00 to   *)
(* GPIOB, whatever the cached states are, and closes the bus only after    *)
(* both writes were accepted; so whenever the bus is closed both GPIO      *)
(* registers are 0x00.  With no transfer rejected it makes both writes and *)
(* the close.                                                              *)
(***************************************************************************)
CleanupEvent(l, k) ==
    CASE k = 1 -> l[k].kind = "writebytes" /\ l[k].frame[2] = GPIOA /\ l[k].frame[3] = 0
      [] k = 2 -> l[k].kind = "writebytes" /\ l[k].frame[2] = GPIOB /\ l[k].frame[3] = 0
      [] k = 3 -> l[k].kind = "close"
      [] OTHER -> FALSE

C8_ShutdownZeroesThenReleases ==
    /\ ~spi_open => (chip[GPIOA] = 0 /\ chip[GPIOB] = 0)
    /\ op = "cleanup" =>
          /\ \A k \in DOMAIN log : CleanupEvent(log, k) /\ (~log[k].ok => k = Len(log))
          /\ (Done /\ Rejections(log) = {}) => (Len(log) = 3 /\ ~spi_open)

C8_Witness ==
    /\ Done
    /\ op = "cleanup"
    /\ Len(log) = 3
    /\ ~spi_open
    /\ rejected
    /\ pre_a # 0

(***************************************************************************)
(* C9.  Original statement: a rejected transfer or close is raised out of  *)
(* the operation that triggered it, for every public operation, cleanup    *)
(* included.                                                               *)
(***************************************************************************)
C9_EveryErrorSurfaces ==
    (Done /\ Rejections(log) # {}) => result = "IOError"

(***************************************************************************)
(* C9 as amended.  A rejected transfer is raised out of every public       *)
(* operation except cleanup, and out of construction; cleanup catches the  *)
(* rejection of its writes or of the close and returns normally.           *)
(***************************************************************************)
C9_ErrorsSurfaceExceptCleanup ==
    /\ (Done /\ Rejections(log) # {}) =>
          IF op = "cleanup" THEN result = "ok" /\ err = "IOError"
          ELSE result = "IOError" /\ err = "IOError"
    /\ (op = "__init__" /\ Rejections(log) # {}) => (pc = "failed" /\ result = "IOError")
    /\ (pc \notin {"done", "failed"} /\ op # "-") => Rejections(log) = {}

C9_Witness ==
    /\ Done
    /\ op = "configure_pin_mode"
    /\ Len(log) = 2
    /\ ~log[2].ok
    /\ result = "IOError"

(***************************************************************************)
(* C10.  After set_pin_high on a valid port and pin, from any prior port   *)
(* state, get_port_state of that port returns a value with the pin's bit   *)
(* set; after set_pin_low, with the bit clear.  get_port_state returns the *)
(* cached state of the port and changes nothing.                           *)
(***************************************************************************)
C10_SetPinThenGetPortState ==
    /\ (Done /\ op = "set_pin_high" /\ args.port \in PortNames /\ args.pin \in PinRange)
          => BitIsSet(CachedOf(args.port), args.pin)
    /\ (Done /\ op = "set_pin_low" /\ args.port \in PortNames /\ args.pin \in PinRange)
          => ~BitIsSet(CachedOf(args.port), args.pin)
    /\ (Done /\ op = "get_port_state" /\ args.port \in PortNames)
          => (result = "ok" /\ ret = <<CachedOf(args.port)>> /\ ShadowUnchanged)

C10_Witness ==
    /\ Done
    /\ op = "set_pin_high"
    /\ args.port = "b"
    /\ args.pin = 3
    /\ pre_b = 5
    /\ port_b_state = 13

(***************************************************************************)
(* C11.  toggle_pin is its own inverse: when a caller toggles a valid      *)
(* (port, pin) twice in a row and both calls have returned, the cached     *)
(* states of both ports and the values of both GPIO registers are what     *)
(* they were before the first call, whatever they were.  (Under            *)
(* SpecToggleTwice the second call is made only after the first has        *)
(* returned; seen holds the state before the first call.)                  *)
(***************************************************************************)
C11_ToggleTwiceRestores ==
    (/\ Done
     /\ seen # NotSeen
     /\ calls = seen.at + 2
     /\ seen.port \in PortNames
     /\ seen.pin \in PinRange
     /\ result = "ok")
    => (/\ port_a_state = seen.a
        /\ port_b_state = seen.b
        /\ chip[GPIOA] = seen.gpioa
        /\ chip[GPIOB] = seen.gpiob)

(***************************************************************************)
(* C12.  set_port(port, v) with port A or B and v in 0..255 issues exactly *)
(* one bus write, to that port's GPIO register and carrying v, makes v the *)
(* cached state of the port and leaves the other port's cached state       *)
(* unchanged; it returns unless that write is rejected.  get_port_state    *)
(* returns the cached state the port had when it was called, so after      *)
(* set_port(port, v) it returns v.                                         *)
(***************************************************************************)
OtherPort(port) == IF port \in {"A", "a"} THEN "B" ELSE "A"

C12_SetPortThenGetPortState ==
    /\ (Done /\ op = "set_port" /\ args.port \in PortNames /\ args.value \in 0..255) =>
          /\ CachedOf(args.port) = args.value
          /\ Len(log) = 1
          /\ log[1].kind = "writebytes"
          /\ log[1].frame[2] = GpioRegOf(args.port)
          /\ log[1].frame[3] = args.value
          /\ result = (IF log[1].ok THEN "ok" ELSE "IOError")
          /\ CachedOf(OtherPort(args.port)) = CachedBefore(OtherPort(args.port))
    /\ (Done /\ op = "get_port_state" /\ args.port \in PortNames) =>
          (result = "ok" /\ ret = <<CachedBefore(args.port)>> /\ log = <<>>)

C12_Witness ==
    /\ Done
    /\ op = "set_port"
    /\ args.port = "b"
    /\ args.value = 255
    /\ result = "ok"
    /\ pre_b = 85
    /\ port_b_state = 255
    /\ port_a_state = 170

(***************************************************************************)
(* C13.  press_sequence over a list of n >= 1 positions inside the matrix  *)
(* performs the presses of the list in list order, repeated positions      *)
(* included: events 6j-5 .. 6j-1 of its log are the press of the j-th      *)
(* position (row high, column high, sleep of the duration, row low, column *)
(* low) and event 6j, for j < n, is one sleep of the interval.  A rejected *)
(* write can only be the last event; with none rejected the call returns   *)
(* after exactly 6n - 1 events, so n presses, n - 1 intervals and no       *)
(* interval after the last press.                                          *)
(***************************************************************************)
AllInMatrix(seq) == \A j \in DOMAIN seq : InMatrix(seq[j][1], seq[j][2])

\* event e is the r-th event of a press of (row, col), or (r = 6) the interval after it
SequenceStep(e, r, row, col) ==
    CASE r = 1 -> WritesBit(e, GpioRegOf(row_port), row, TRUE)
      [] r = 2 -> WritesBit(e, GpioRegOf(col_port), col, TRUE)
      [] r = 3 -> e.kind = "sleep" /\ e.frame = <<DefaultDuration>>
      [] r = 4 -> WritesBit(e, GpioRegOf(row_port), row, FALSE)
      [] r = 5 -> WritesBit(e, GpioRegOf(col_port), col, FALSE)
      [] r = 6 -> e.kind = "sleep" /\ e.frame = <<DefaultInterval>>
      [] OTHER -> FALSE

SequenceEvent(l, k, seq) ==
    LET j == ((k - 1) \div 6) + 1
        r == ((k - 1) % 6) + 1
    IN /\ j \in DOMAIN seq
       /\ SequenceStep(l[k], r, seq[j][1], seq[j][2])

C13_SequencePressesInOrder ==
    (op = "press_sequence" /\ Len(args.seq) >= 1 /\ AllInMatrix(args.seq)) =>
        /\ \A k \in DOMAIN log :
              SequenceEvent(log, k, args.seq) /\ (~log[k].ok => k = Len(log))
        /\ (Done /\ Rejections(log) = {}) =>
              (Len(log) = 6 * Len(args.seq) - 1 /\ result = "ok")

C13_Witness ==
    /\ Done
    /\ op = "press_sequence"
    /\ args.seq = <<(<<3, 3>>), (<<1, 3>>)>>
    /\ num_rows = 4
    /\ Len(log) = 11
    /\ result = "ok"

(***************************************************************************)
(* C14.  press_sequence with an empty list issues no bus transfer,         *)
(* performs no sleep, leaves both cached port states as they were, and     *)
(* returns normally.                                                       *)
(***************************************************************************)
C14_EmptySequenceDoesNothing ==
    (op = "press_sequence" /\ args.seq = <<>>) =>
        /\ log = <<>>
        /\ ShadowUnchanged
        /\ pc \in {"seq_next", "done"}
        /\ Done => (result = "ok" /\ ret = <<>> /\ err = "none")

C14_Witness ==
    /\ Done
    /\ op = "press_sequence"
    /\ args.seq = <<>>
    /\ result = "ok"
    /\ port_a_state # 0
    /\ port_b_state # 0

(***************************************************************************)
(* C15.  With row port A, column port B and both cached states 0x00 at the *)
(* call, a press of a valid position holds the cached state of A at        *)
(* 1 << row and that of B at 1 << col from the column write until the row  *)
(* is released (the sleep of the pulse duration lies in between), and both *)
(* are 0x00 when the press has returned.  For press_button the position is *)
(* inside the matrix; for pulse_row_column with its default ports, row and *)
(* col are pin numbers.  In the 3x4 matrix, (1, 3) holds 0x02 and 0x08.    *)
(***************************************************************************)
PressHeld == pc \in {"prc_sleep", "prc_row_low"}

C15_PressHoldsRowAndColumn ==
    (/\ \/ op = "press_button" /\ InMatrix(args.row, args.col)
        \/ op = "pulse_row_column" /\ args.row \in PinRange /\ args.col \in PinRange
     /\ args.rport = "A"
     /\ args.cport = "B"
     /\ pre_a = 0
     /\ pre_b = 0)
    => /\ PressHeld => (port_a_state = 2 ^ args.row /\ port_b_state = 2 ^ args.col)
       /\ (PressHeld /\ num_rows = 3 /\ num_cols = 4 /\ args.row = 1 /\ args.col = 3)
             => (port_a_state = 2 /\ port_b_state = 8)
       /\ (Done /\ result = "ok") => (port_a_state = 0 /\ port_b_state = 0)

C15_Witness ==
    /\ pc = "prc_row_low"
    /\ op = "press_button"
    /\ num_rows = 3
    /\ num_cols = 4
    /\ args.row = 1
    /\ args.col = 3
    /\ pre_a = 0
    /\ pre_b = 0
    /\ port_a_state = 2
    /\ port_b_state = 8
    /\ chip[GPIOA] = 2
    /\ chip[GPIOB] = 8

(***************************************************************************)
(* C16.  Construction writes 0x00 to six registers, in this order: the     *)
(* direction registers of A and B (0x00, 0x01), the pull-up registers of A *)
(* and B (0x0C, 0x0D), the GPIO registers of A and B (0x12, 0x13); it      *)
(* completes after exactly these six writes, all accepted, with both       *)
(* cached states 0.  A rejected write is the last transfer: the error      *)
(* leaves the constructor, construction never completes and from then on   *)
(* no operation can be called.                                             *)
(***************************************************************************)
C16_InitRegisters == <<0, 1, 12, 13, 18, 19>>

C16_InitWritesSixZeroes ==
    /\ op = "__init__" =>
          /\ \A k \in DOMAIN log :
                /\ k <= 6
                /\ log[k].kind = "writebytes"
                /\ log[k].frame[2] = C16_InitRegisters[k]
                /\ log[k].frame[3] = 0
                /\ ~log[k].ok => k = Len(log)
          /\ Done => /\ Len(log) = 6
                     /\ Rejections(log) = {}
                     /\ result = "ok"
                     /\ port_a_state = 0 /\ port_b_state = 0
                     /\ \A r \in {0, 1, 12, 13, 18, 19} : chip[r] = 0
          /\ Rejections(log) # {} => (pc = "failed" /\ result = "IOError" /\ err = "IOError")
    /\ pc = "failed" => (op = "__init__" /\ Rejections(log) # {} /\ calls = 0 /\ ~ENABLED Next)
    /\ calls > 0 => pc # "failed"

C16_Witness ==
    /\ pc = "failed"
    /\ op = "__init__"
    /\ Len(log) = 5
    /\ ~log[5].ok
    /\ chip[IODIRA] = 0
    /\ chip[GPIOA] = 255
    /\ result = "IOError"

(***************************************************************************)
(* C17.  Every write transfer is the 3-byte frame                          *)
(* [0x40 | (chip_select << 1) | 0, register address, data] and every read  *)
(* transfer is [0x40 | (chip_select << 1) | 1, register address, 0x00];    *)
(* the value a read returns is the third byte of the response.  For        *)
(* chip_select 0 and 1 the command byte has bits 7:6 = 01, bits 5:2 = 0,   *)
(* bit 1 = chip_select and bit 0 = the opcode, and chip_select never       *)
(* changes after construction, so the command byte is the same for every   *)
(* call.  Register address and data are checked for construction           *)
(* (register k of six, 0x00), set_port (the port's GPIO register, the      *)
(* value), read_port_input (the port's GPIO register) and                  *)
(* configure_pin_mode (the port's direction register).                     *)
(***************************************************************************)
C17_Opcode(e) == IF e.kind = "xfer2" THEN 1 ELSE 0

DirRegOf(port) == IF port \in {"A", "a"} THEN 0 ELSE 1

C17_CommandByte(e) ==
    /\ Len(e.frame) = 3
    /\ e.frame[1] = 64 + 2 * chip_select + C17_Opcode(e)
    /\ e.frame[1] \div 64 = 1
    /\ (e.frame[1] \div 4) % 16 = 0
    /\ (e.frame[1] \div 2) % 2 = chip_select
    /\ e.frame[1] % 2 = C17_Opcode(e)
    /\ e.kind = "xfer2" => (e.frame[3] = 0 /\ (e.ok => Len(e.resp) = 3))

C17_Frames ==
    /\ \A k \in DOMAIN log :
          log[k].kind \in {"writebytes", "xfer2"} => C17_CommandByte(log[k])
    /\ op = "__init__" =>
          \A k \in DOMAIN log :
             log[k].frame = <<64 + 2 * chip_select, C16_InitRegisters[k], 0>>
    /\ (Done /\ op = "set_port" /\ log # <<>>) =>
          log[1].frame = <<64 + 2 * chip_select, GpioRegOf(args.port), args.value>>
    /\ (Done /\ op = "read_port_input" /\ log # <<>>) =>
          /\ log[1].frame = <<65 + 2 * chip_select, GpioRegOf(args.port), 0>>
          /\ log[1].ok => ret = <<log[1].resp[3]>>
    /\ (op = "configure_pin_mode" /\ log # <<>>) =>
          /\ log[1].frame = <<65 + 2 * chip_select, DirRegOf(args.port), 0>>
          /\ log[1].ok => args.current = log[1].resp[3]
          /\ Len(log) = 2 => (log[2].frame[1] = 64 + 2 * chip_select
                              /\ log[2].frame[2] = DirRegOf(args.port))

C17_FrameLayout == []C17_Frames /\ [][chip_select' = chip_select]_vars

C17_Witness ==
    /\ Done
    /\ op = "read_port_input"
    /\ chip_select = 1
    /\ args.port = "b"
    /\ log = <<[kind |-> "xfer2", frame |-> <<67, 19, 0>>, resp |-> <<0, 0, 5>>, ok |-> TRUE]>>
    /\ ret = <<5>>

(***************************************************************************)
(* C18.  A register write or read whose transfer the transport rejects is  *)
(* attempted once: the rejected transfer is the last event of the          *)
(* operation (no second attempt of the frame, no further transfer), the    *)
(* operation ends there, and the error raised inside it is the             *)
(* transport's own error.  This holds for construction and for every       *)
(* operation built on the register layer.                                  *)
(***************************************************************************)
C18_RejectedTransferOnce ==
    /\ \A k \in Rejections(log) : k = Len(log)
    /\ Rejections(log) # {} => (pc \in {"done", "failed"} /\ err = "IOError")
    /\ (Done /\ err = "IOError") => Cardinality(Rejections(log)) = 1

C18_Witness ==
    /\ Done
    /\ op = "press_sequence"
    /\ Len(args.seq) = 2
    /\ Len(log) = 8
    /\ ~log[8].ok
    /\ spi_open
    /\ result = "IOError"

(***************************************************************************)
(* C19.  get_port_state issues no bus transfer and changes no state: it    *)
(* returns the cached state of the requested port (A or B, either case),   *)
(* in every state it can be called in, the bus closed or a port's cached   *)
(* state different from its register included.  The call leaves the        *)
(* cached states, the chip's registers, the bus and the configuration as   *)
(* they are.                                                               *)
(***************************************************************************)
C19_NoTransfer ==
    op = "get_port_state" =>
        /\ Done
        /\ log = <<>>
        /\ ShadowUnchanged
        /\ IF args.port \in PortNames
           THEN result = "ok" /\ ret = <<CachedOf(args.port)>>
           ELSE result = "ValueError" /\ ret = <<>>

C19_CallChangesNothing ==
    (op' = "get_port_state" /\ op # "get_port_state") =>
        /\ port_a_state' = port_a_state
        /\ port_b_state' = port_b_state
        /\ chip' = chip
        /\ spi_open' = spi_open
        /\ rejected' = rejected
        /\ config' = config

C19_GetPortStateIsPure == []C19_NoTransfer /\ [][C19_CallChangesNothing]_vars

C19_Witness ==
    /\ Done
    /\ op = "get_port_state"
    /\ args.port = "b"
    /\ ~spi_open
    /\ port_b_state = 8
    /\ chip[GPIOB] = 0
    /\ ret = <<8>>

(***************************************************************************)
(* C20.  configure_pin_mode(port, pin, is_output) on a valid port and pin  *)
(* issues one read of that port's direction register and then one write to *)
(* it; the byte written is the byte read with bit pin 0 for an output and  *)
(* 1 for an input and the other seven bits as read.  A rejected transfer   *)
(* ends the call; with none rejected the call returns after the two        *)
(* transfers and the register holds the byte written.  No step of the call *)
(* changes another register of the chip or a cached port state.            *)
(***************************************************************************)
C20_Bit(v, b) == (v \div (2 ^ b)) % 2

C20_ReadThenWrite ==
    (op = "configure_pin_mode" /\ args.port \in PortNames /\ args.pin \in PinRange) =>
        /\ Len(log) <= 2
        /\ \A k \in DOMAIN log : ~log[k].ok => k = Len(log)
        /\ Len(log) >= 1 =>
              /\ log[1].kind = "xfer2"
              /\ log[1].frame[2] = DirRegOf(args.port)
        /\ Len(log) = 2 =>
              /\ log[2].kind = "writebytes"
              /\ log[2].frame[2] = DirRegOf(args.port)
              /\ C20_Bit(log[2].frame[3], args.pin) = (IF args.is_output THEN 0 ELSE 1)
              /\ \A b \in PinRange \ {args.pin} :
                    C20_Bit(log[2].frame[3], b) = C20_Bit(log[1].resp[3], b)
              /\ log[2].frame[3] \in 0..255
        /\ (Done /\ Rejections(log) = {}) =>
              /\ Len(log) = 2
              /\ result = "ok"
              /\ chip[DirRegOf(args.port)] = log[2].frame[3]
        /\ ShadowUnchanged

C20_StepKeepsTheRest ==
    op' = "configure_pin_mode" =>
        /\ \A r \in DOMAIN chip :
              (r # DirRegOf(args'.port) \/ args'.port \notin PortNames)
                 => chip'[r] = chip[r]
        /\ port_a_state' = port_a_state
        /\ port_b_state' = port_b_state

C20_ConfigurePinMode == []C20_ReadThenWrite /\ [][C20_StepKeepsTheRest]_vars

C20_Witness ==
    /\ Done
    /\ op = "configure_pin_mode"
    /\ args.port = "A"
    /\ args.pin = 1
    /\ args.is_output
    /\ Len(log) = 2
    /\ log[1].resp = <<0, 0, 10>>
    /\ log[2].frame[3] = 8
    /\ chip[IODIRA] = 8
    /\ result = "ok"

(***************************************************************************)
(* C21.  pulse_pin on a valid port and pin sets the pin high, sleeps the   *)
(* duration once, then sets the pin low: the events of the call are a      *)
(* write to the port's GPIO register with bit pin set, the sleep, a write  *)
(* to the same register with bit pin clear, in this order.  A rejected     *)
(* write is the last event.  With both writes accepted the call returns    *)
(* after these three events, bit pin is 0 in the cached state and in the   *)
(* register, the other seven bits of the port's cached state and the       *)
(* cached state of the other port are as before the call.                  *)
(***************************************************************************)
PulseEvent(l, k) ==
    CASE k = 1 -> WritesBit(l[k], GpioRegOf(args.port), args.pin, TRUE)
      [] k = 2 -> l[k].kind = "sleep" /\ l[k].frame = <<args.duration>>
      [] k = 3 -> WritesBit(l[k], GpioRegOf(args.port), args.pin, FALSE)
      [] OTHER -> FALSE

C21_PulseHighHoldLow ==
    (op = "pulse_pin" /\ args.port \in PortNames /\ args.pin \in PinRange) =>
        /\ \A k \in DOMAIN log : PulseEvent(log, k) /\ (~log[k].ok => k = Len(log))
        /\ (Done /\ Rejections(log) = {}) =>
              /\ Len(log) = 3
              /\ Cardinality(WriteIndexes(log)) = 2
              /\ result = "ok"
              /\ C20_Bit(CachedOf(args.port), args.pin) = 0
              /\ C20_Bit(chip[GpioRegOf(args.port)], args.pin) = 0
              /\ \A b \in PinRange \ {args.pin} :
                    C20_Bit(CachedOf(args.port), b) = C20_Bit(CachedBefore(args.port), b)
              /\ CachedOf(OtherPort(args.port)) = CachedBefore(OtherPort(args.port))

C21_Witness ==
    /\ Done
    /\ op = "pulse_pin"
    /\ args.port = "b"
    /\ args.pin = 3
    /\ Len(log) = 3
    /\ result = "ok"
    /\ pre_b = 13
    /\ port_b_state = 5
    /\ chip[GPIOB] = 5

(***************************************************************************)
(* C22.  When a pulse_pin, pulse_row_column, press_button or               *)
(* press_sequence has failed (transport error or invalid argument, at any  *)
(* of its steps) and the caller then calls cleanup, and the bus accepts    *)
(* the two writes of cleanup, both GPIO registers hold 0x00, whatever the  *)
(* failed operation had left in them.  (Under SpecFinally; seen holds what *)
(* the failed operation left.)                                             *)
(***************************************************************************)
C22_ShutdownAfterFailure ==
    (/\ Done
     /\ op = "cleanup"
     /\ seen # NotSeen
     /\ calls = seen.at + 1
     /\ Cardinality(WriteIndexes(log)) = 2
     /\ \A k \in WriteIndexes(log) : log[k].ok)
    => (chip[GPIOA] = 0 /\ chip[GPIOB] = 0)

C22_Witness ==
    /\ Done
    /\ op = "cleanup"
    /\ seen # NotSeen
    /\ calls = seen.at + 1
    /\ seen.gpioa # 0
    /\ seen.gpiob # 0
    /\ Len(log) = 3
    /\ log[1].ok
    /\ log[2].ok
    /\ chip[GPIOA] = 0
    /\ chip[GPIOB] = 0

(***************************************************************************)
(* C23.  From any cached states of the two ports, while press_button at a  *)
(* position inside the matrix holds its pulse (from the column write until *)
(* the row is released, the sleep in between), bit row of the row port's   *)
(* GPIO register and bit col of the column port's GPIO register are both   *)
(* 1: one intersection, not two pulses one after the other.  When the      *)
(* press has returned both bits are 0 in the registers, the registers hold *)
(* the cached states, and every other bit of both cached states is as      *)
(* before the press.                                                       *)
(***************************************************************************)
C23_SimultaneousIntersection ==
    (op = "press_button" /\ InMatrix(args.row, args.col)) =>
        /\ PressHeld =>
              /\ C20_Bit(chip[GpioRegOf(row_port)], args.row) = 1
              /\ C20_Bit(chip[GpioRegOf(col_port)], args.col) = 1
              /\ Rejections(log) = {}
        /\ (Done /\ result = "ok") =>
              /\ C20_Bit(chip[GpioRegOf(row_port)], args.row) = 0
              /\ C20_Bit(chip[GpioRegOf(col_port)], args.col) = 0
              /\ chip[GpioRegOf(row_port)] = CachedOf(row_port)
              /\ chip[GpioRegOf(col_port)] = CachedOf(col_port)
              /\ \A b \in PinRange \ {args.row} :
                    C20_Bit(CachedOf(row_port), b) = C20_Bit(CachedBefore(row_port), b)
              /\ \A b \in PinRange \ {args.col} :
                    C20_Bit(CachedOf(col_port), b) = C20_Bit(CachedBefore(col_port), b)

C23_Witness ==
    /\ pc = "prc_row_low"
    /\ op = "press_button"
    /\ row_port = "A"
    /\ args.row = 1
    /\ args.col = 3
    /\ pre_a = 8
    /\ pre_b = 5
    /\ chip[GPIOA] = 10
    /\ chip[GPIOB] = 13

(***************************************************************************)
(* C24.  In a press_sequence over positions inside the matrix, with the    *)
(* row port different from the column port and both cached states 0x00 at  *)
(* the call, the cached state of the row port and that of the column port  *)
(* have at most one bit set at every step; between two presses (the        *)
(* interval and the head of the loop) and when the sequence has returned   *)
(* both are 0x00.  When no transfer has ever been rejected the GPIO        *)
(* registers were 0x00 at the call as well and equal the cached states at  *)
(* every step, so the same holds for the pins.                             *)
(***************************************************************************)
C24_PinsHigh(v) == Cardinality({b \in PinRange : C20_Bit(v, b) = 1})

C24_BetweenPresses == pc \in {"seq_next", "seq_interval"} \/ (Done /\ result = "ok")

C24_PressesNeverOverlap ==
    (/\ op = "press_sequence"
     /\ AllInMatrix(args.seq)
     /\ row_port # col_port
     /\ pre_a = 0
     /\ pre_b = 0)
    => /\ C24_PinsHigh(CachedOf(row_port)) <= 1
       /\ C24_PinsHigh(CachedOf(col_port)) <= 1
       /\ C24_BetweenPresses => (port_a_state = 0 /\ port_b_state = 0)
       /\ ~rejected => (chip[GPIOA] = port_a_state /\ chip[GPIOB] = port_b_state)

C24_Witness ==
    /\ pc = "prc_row_low"
    /\ op = "press_sequence"
    /\ args.seq = <<(<<3, 3>>), (<<1, 3>>)>>
    /\ args.i = 2
    /\ num_rows = 4
    /\ ~rejected
    /\ CachedOf(row_port) = 2
    /\ CachedOf(col_port) = 8
    /\ chip[GpioRegOf(row_port)] = 2
    /\ chip[GpioRegOf(col_port)] = 8

(***************************************************************************)
(* C25.  set_pin_high / set_pin_low on a valid port and pin issue exactly  *)
(* one bus write, to that port's GPIO register; its data byte is the new   *)
(* cached state of the port: bit pin is the level and the other seven bits *)
(* are those of the cached state before the call.  The other port's cached *)
(* state is unchanged, and the call changes no register of the chip other  *)
(* than that port's GPIO register, which holds the byte when the write is  *)
(* accepted.                                                               *)
(***************************************************************************)
C25_Level == IF op = "set_pin_high" THEN 1 ELSE 0

C25_OneWriteOfNewByte ==
    (/\ op \in {"set_pin_high", "set_pin_low"}
     /\ args.port \in PortNames
     /\ args.pin \in PinRange)
    => /\ Done
       /\ Len(log) = 1
       /\ log[1].kind = "writebytes"
       /\ log[1].frame[2] = GpioRegOf(args.port)
       /\ log[1].frame[3] = CachedOf(args.port)
       /\ C20_Bit(CachedOf(args.port), args.pin) = C25_Level
       /\ \A b \in PinRange \ {args.pin} :
             C20_Bit(CachedOf(args.port), b) = C20_Bit(CachedBefore(args.port), b)
       /\ CachedOf(OtherPort(args.port)) = CachedBefore(OtherPort(args.port))
       /\ log[1].ok => chip[GpioRegOf(args.port)] = log[1].frame[3]
       /\ result = (IF log[1].ok THEN "ok" ELSE "IOError")

C25_CallKeepsOtherRegisters ==
    (op' \in {"set_pin_high", "set_pin_low"} /\ op \notin {"set_pin_high", "set_pin_low"}) =>
        \A r \in DOMAIN chip :
           (r # GpioRegOf(args'.port) \/ args'.port \notin PortNames) => chip'[r] = chip[r]

C25_SetPinChangesOneBit == []C25_OneWriteOfNewByte /\ [][C25_CallKeepsOtherRegisters]_vars

C25_Witness ==
    /\ Done
    /\ op = "set_pin_low"
    /\ args.port = "A"
    /\ args.pin = 1
    /\ pre_a = 10
    /\ port_a_state = 8
    /\ port_b_state # 0
    /\ log[1].frame = <<64, 18, 8>>
    /\ log[1].ok

(***************************************************************************)
(* C26.  toggle_pin on a valid port and pin issues exactly one bus write,  *)
(* to that port's GPIO register.  When it returns, the boolean returned is *)
(* the new level of the pin: the negation of bit pin of the cached state   *)
(* before the call, and bit pin of the cached state after it (what         *)
(* get_port_state returns).  When the write is rejected it raises and      *)
(* returns nothing.                                                        *)
(***************************************************************************)
C26_ToggleReturnsNewLevel ==
    (op = "toggle_pin" /\ args.port \in PortNames /\ args.pin \in PinRange) =>
        /\ Done
        /\ Len(log) = 1
        /\ log[1].kind = "writebytes"
        /\ log[1].frame[2] = GpioRegOf(args.port)
        /\ C20_Bit(CachedOf(args.port), args.pin) = 1 - C20_Bit(CachedBefore(args.port), args.pin)
        /\ IF log[1].ok
           THEN /\ result = "ok"
                /\ ret = <<C20_Bit(CachedBefore(args.port), args.pin) = 0>>
                /\ ret = <<C20_Bit(CachedOf(args.port), args.pin) = 1>>
           ELSE result = "IOError" /\ ret = <<>>

C26_Witness ==
    /\ Done
    /\ op = "toggle_pin"
    /\ args.port = "A"
    /\ args.pin = 3
    /\ pre_a = 10
    /\ port_a_state = 2
    /\ ret = <<FALSE>>
    /\ result = "ok"

(***************************************************************************)
(* C27.  read_port_input on port A or B issues exactly one read transfer,  *)
(* on that port's GPIO register, and leaves both cached states unchanged.  *)
(* When the transfer is accepted it returns the third byte of the          *)
(* response, which is the byte the chip holds in that register, also when  *)
(* the cached state of the port is a different byte; when it is rejected   *)
(* the call raises.                                                        *)
(***************************************************************************)
C27_ReadBypassesCache ==
    (op = "read_port_input" /\ args.port \in PortNames) =>
        /\ Done
        /\ Len(log) = 1
        /\ log[1].kind = "xfer2"
        /\ log[1].frame[2] = GpioRegOf(args.port)
        /\ ShadowUnchanged
        /\ IF log[1].ok
           THEN /\ result = "ok"
                /\ ret = <<log[1].resp[3]>>
                /\ ret = <<chip[GpioRegOf(args.port)]>>
           ELSE result = "IOError" /\ ret = <<>>

C27_Witness ==
    /\ Done
    /\ op = "read_port_input"
    /\ args.port = "b"
    /\ result = "ok"
    /\ port_b_state = 2
    /\ chip[GPIOB] = 8
    /\ ret = <<8>>

(***************************************************************************)
(* C28.  In every reachable state both cached port states are integers in  *)
(* 0..255, and so are the data byte of every bus write and the contents of *)
(* both GPIO registers: whatever set_pin_high, set_pin_low, toggle_pin,    *)
(* set_port, pulse_pin, press_button and press_sequence calls were made,   *)
(* with pins 0 and 7 and values 0 and 255 among them, and calls with a pin *)
(* or a value beyond the limits as well (they are refused).                *)
(***************************************************************************)
C28_Byte == 0..255

C28_BytesInRange ==
    /\ port_a_state \in C28_Byte
    /\ port_b_state \in C28_Byte
    /\ \A k \in WriteIndexes(log) : log[k].frame[3] \in C28_Byte
    /\ chip[GPIOA] \in C28_Byte
    /\ chip[GPIOB] \in C28_Byte

C28_Witness ==
    /\ Done
    /\ op = "set_pin_high"
    /\ args.port = "A"
    /\ args.pin = 7
    /\ pre_a = 127
    /\ port_a_state = 255
    /\ port_b_state = 255
    /\ log[1].frame[3] = 255
    /\ log[1].ok

(***************************************************************************)
(* C29.  A pulse_pin, press_button or press_sequence that has been called  *)
(* runs to its end: from every step of the n-th call the n-th call is      *)
(* eventually done (a press_sequence over a finite list terminates).  When *)
(* the arguments are valid and no bus write was rejected it has returned   *)
(* normally and every pin it asserted is low again, in the cached states   *)
(* and in the GPIO registers.                                              *)
(***************************************************************************)
C29_Bit(port, pin) == C20_Bit(CachedOf(port), pin) + C20_Bit(chip[GpioRegOf(port)], pin)

C29_Running(n) == calls = n /\ op \in PulseOperations /\ pc # "done"

C29_Completed(n) == calls = n /\ op \in PulseOperations /\ pc = "done"

C29_PinsLowAgain ==
    (Done /\ Rejections(log) = {}) =>
        /\ (op = "pulse_pin" /\ args.port \in PortNames /\ args.pin \in PinRange) =>
              (result = "ok" /\ C29_Bit(args.port, args.pin) = 0)
        /\ (op = "press_button" /\ InMatrix(args.row, args.col)) =>
              /\ result = "ok"
              /\ C29_Bit(row_port, args.row) = 0
              /\ C29_Bit(col_port, args.col) = 0
        /\ (op = "press_sequence" /\ AllInMatrix(args.seq)) =>
              /\ result = "ok"
              /\ \A j \in DOMAIN args.seq :
                    /\ C29_Bit(row_port, args.seq[j][1]) = 0
                    /\ C29_Bit(col_port, args.seq[j][2]) = 0

C29_RunsToCompletion ==
    /\ \A n \in 1..(MaxCalls + 1) : C29_Running(n) ~> C29_Completed(n)
    /\ []C29_PinsLowAgain

C29_Witness ==
    /\ Done
    /\ op = "press_sequence"
    /\ args.seq = <<(<<1, 3>>), (<<3, 3>>)>>
    /\ num_rows = 4
    /\ Rejections(log) = {}
    /\ Len(log) = 11
    /\ result = "ok"
    /\ pre_a # 0
    /\ pre_b # 0

=============================================================================
